---- MODULE Spec2Model ----
(***************************************************************************)
(* Model of the PrepBuzz pipeline orchestration engine                     *)
(* (src/src/core/unified_flow_engine.py; the registry and the executor of  *)
(* src/src/core/flow_engine.py are line-for-line the same logic).          *)
(*                                                                         *)
(* Python values are encoded as follows.                                   *)
(*   dict        a function whose DOMAIN is the set of keys                *)
(*   None        (where a dict is expected) the function NoneData          *)
(*   config      a string; "None" is Python's None, "{}" the empty dict    *)
(*   str / None  (an error) a sequence of message parts; PyNone is None    *)
(*   instance    a record [id, cls, name, config]; id is object identity   *)
(***************************************************************************)
EXTENDS Integers, Sequences, FiniteSets, TLC

\* ---------------------------------------------------------------- bounds
\* Longest step-name sequence handed to a run.
MaxSteps == 2
\* Number of flow instances the model lets the factories construct.
MaxInstances == 2
\* Number of flow instances the concurrent callers of create_flow can construct.
MaxThreadInstances == 3

\* ------------------------------------------------------------ value sets
\* Step names the callers use (main.py's pipeline names).
Names == {"question_selection", "reasoning_extraction"}

\* Flow classes that can be registered; the constructor of BrokenFlow raises.
GoodClasses == {"FlowA", "FlowB"}
FlowClasses == GoodClasses \cup {"BrokenFlow"}

\* Python None where a mapping is expected.
NoneData == [k \in {"<None>"} |-> "<None>"]
\* The empty dict.
EmptyDict == [k \in {} |-> "<None>"]
\* Python None where a string is expected.
PyNone == <<"<None>">>

\* One-entry and two-entry dicts.
D1(k, v) == [x \in {k} |-> v]
D2(k1, v1, k2, v2) == [x \in {k1, k2} |-> IF x = k1 THEN v1 ELSE v2]

IsDict(d) == d # NoneData

\* Python truthiness of a dict-or-None value: None and {} are falsy.
Truthy(d) == IsDict(d) /\ DOMAIN d # {}

\* `x or {}`: x itself when truthy, otherwise a new empty dict.
OrEmpty(d) == IF Truthy(d) THEN d ELSE EmptyDict

\* dict.get(k) with default None, for dicts of config strings.
DictGet(d, k) == IF k \in DOMAIN d THEN d[k] ELSE "None"

\* Mutant of DictUpdate: the value already present wins a collision.
DictUpdateKeepOld(d, e) ==
    [k \in DOMAIN d \cup DOMAIN e |-> IF k \in DOMAIN d THEN d[k] ELSE e[k]]

\* dict.update: d.update(e) - e's value wins on every key of e.
DictUpdate(d, e) ==
    [k \in DOMAIN d \cup DOMAIN e |-> IF k \in DOMAIN e THEN e[k] ELSE d[k]]

\* ------------------------------------------------------------- instances
\* create_flow's `return None`.
NoFlow == [id |-> 0, cls |-> "<None>", name |-> "<None>", config |-> "<None>"]

\* BaseFlow.__init__: self.name = name; self.config = config or {}.
BaseFlowInit(id, cls, name, config) ==
    [id |-> id, cls |-> cls, name |-> name,
     config |-> IF config = "None" \/ config = "{}" THEN "{}" ELSE config]

\* Whether flow_class(name, config) raises.
ConstructorRaises(cls) == cls = "BrokenFlow"

\* d[k] = v on a dict (insert or overwrite).
DictPut(d, k, v) == [x \in DOMAIN d \cup {k} |-> IF x = k THEN v ELSE d[x]]

\* str(x) inside an f-string: None prints as the text "None".
Str(e) == IF e = PyNone THEN <<"None">> ELSE e

\* ------------------------------------------------------ inputs of the model
\* Values a context key can hold. The q* values are question records, read
\* through QuestionRecord; "notADict" is a value without a .get method.
Vals == {"Verbal", "qSimple", "qComplex", "notADict"}

\* Contexts the callers pass as initial_data (None = argument omitted).
InitialDatas ==
    {NoneData, EmptyDict, D1("question", "qComplex"), D1("question", "notADict")}

\* Dicts a successful step returns as result.data.
StepDatas ==
    {D1("question", "qSimple"), D2("question", "qComplex", "subject", "Verbal")}

\* Config strings a caller supplies for a step ("{}" is an empty dict).
CallerConfigs == {"{}", "depth=custom"}

\* flow_configs arguments: omitted, or one entry for reasoning_extraction.
FlowConfigs ==
    {NoneData, D1("reasoning_extraction", "depth=custom")}

\* What one call of flow.execute(current_data) can do: return a FlowResult
\* (data a dict, or None for a result that cannot be merged) or raise.
StepOutcomes ==
    {[kind |-> "return", success |-> TRUE, data |-> d, error |-> PyNone] :
        d \in StepDatas \cup {NoneData}}
    \cup {[kind |-> "return", success |-> FALSE,
           data |-> D1("subject", "Verbal"), error |-> e] :
        e \in {PyNone, <<"Missing question data">>}}
    \cup {[kind |-> "raise", success |-> FALSE, data |-> NoneData,
           error |-> <<"boom">>]}

\* No outcome: the step was never executed.
NoOutcome == [kind |-> "none", success |-> FALSE, data |-> NoneData, error |-> PyNone]

\* Step-name sequences of length 0..MaxSteps.
RECURSIVE SeqsUpTo(_, _)
SeqsUpTo(S, n) ==
    IF n = 0 THEN {<<>>}
    ELSE LET shorter == SeqsUpTo(S, n - 1)
         IN shorter \cup {Append(s, x) : s \in {t \in shorter : Len(t) = n - 1}, x \in S}

FlowNameSeqs == SeqsUpTo(Names, MaxSteps)

\* ------------------------------------------------------------------ state
VARIABLES
    flows,            \* UnifiedFlowEngine._flows: name -> flow class
    instances,        \* UnifiedFlowEngine._instances: name -> default instance
    nextId,           \* number of instances constructed so far
    last_create,      \* the last direct create_flow call: [name, config, flow, fresh]
    pc,               \* "idle", "running" (inside the for loop), "done"
    call,             \* arguments of the running execute_pipeline call
    initial_data,     \* contents now of the caller's initial_data object
    current_data,     \* contents of the executor's current_data
    aliased,          \* current_data is the caller's object (no copy was made)
    flow_configs,     \* the executor's flow_configs after `or {}`
    pipeline_results, \* the executor's pipeline_results list
    idx,              \* position of the next flow_name of the loop
    trace,            \* history: per position reached, the flow obtained and its outcome
    result,           \* the FlowResult returned when pc = "done"
    threads,          \* per concurrent caller of create_flow: where it is in the call
    probe,            \* the SimpleAgent call under study: its input and its output
    flow_registry,    \* flow_engine.flow_registry._flows: name -> flow class
    imported          \* the flow modules of src/flows imported so far, in order

vars == <<flows, instances, nextId, last_create, pc, call, initial_data,
          current_data, aliased, flow_configs, pipeline_results, idx, trace,
          result, threads, probe, flow_registry, imported>>

registryVars == <<flows, instances, nextId>>
runVars == <<pc, call, initial_data, current_data, aliased, flow_configs,
             pipeline_results, idx, trace, result>>
importVars == <<flow_registry, imported>>
sideVars == <<threads, probe, flow_registry, imported>>

\* ---------------------------------------------------------------- registry
\* register_flow: self._flows[name] = flow_class. _instances is not touched.
register_flow(fl, name, flow_class) == DictPut(fl, name, flow_class)

\* Mutant of UseCached: the cache is never consulted.
UseCachedNever(inst, name, config) == FALSE

\* Mutant of UseCached: the cached instance is returned whatever the config.
UseCachedAnyConfig(inst, name, config) == name \in DOMAIN inst

\* `name in self._instances and config is None`.
UseCached(inst, name, config) == name \in DOMAIN inst /\ config = "None"

\* Mutant of CacheDefault: every constructed instance is cached.
CacheAlways(inst, name, config, flow_instance) == DictPut(inst, name, flow_instance)

\* `if config is None: self._instances[name] = flow_instance`.
CacheDefault(inst, name, config, flow_instance) ==
    IF config = "None" THEN DictPut(inst, name, flow_instance) ELSE inst

\* Mutant of create_flow: the cache is written on the way out of the try
\* block, so a constructor that raised leaves None cached under the name.
create_flow_caching_failure(fl, inst, nid, name, config) ==
    IF name \notin DOMAIN fl
    THEN [flow |-> NoFlow, instances |-> inst, nextId |-> nid]
    ELSE IF UseCached(inst, name, config)
    THEN [flow |-> inst[name], instances |-> inst, nextId |-> nid]
    ELSE IF ConstructorRaises(fl[name])
    THEN [flow |-> NoFlow, instances |-> CacheDefault(inst, name, config, NoFlow),
          nextId |-> nid]
    ELSE LET flow_instance == BaseFlowInit(nid + 1, fl[name], name, config)
         IN [flow |-> flow_instance,
             instances |-> CacheDefault(inst, name, config, flow_instance),
             nextId |-> nid + 1]

\* create_flow on registry (fl, inst, nid): the instance returned (NoFlow for
\* None) and the registry afterwards.
create_flow(fl, inst, nid, name, config) ==
    IF name \notin DOMAIN fl
    THEN [flow |-> NoFlow, instances |-> inst, nextId |-> nid]
    ELSE IF UseCached(inst, name, config)
    THEN [flow |-> inst[name], instances |-> inst, nextId |-> nid]
    ELSE IF ConstructorRaises(fl[name])
    THEN [flow |-> NoFlow, instances |-> inst, nextId |-> nid]
    ELSE LET flow_instance == BaseFlowInit(nid + 1, fl[name], name, config)
         IN [flow |-> flow_instance,
             instances |-> CacheDefault(inst, name, config, flow_instance),
             nextId |-> nid + 1]

NoCreate == [name |-> "<None>", config |-> "<None>", flow |-> NoFlow, fresh |-> FALSE]

\* Threads that call create_flow on the one engine. The engine holds no lock:
\* a thread can be preempted between any two statements of create_flow.
Threads == {"t1", "t2"}

\* The step name the concurrent callers contend for.
ThreadNames == {"question_selection"}

\* A thread outside create_flow. Inside, at is the statement it is about to
\* execute ("registered", "cached", "construct", "store") or "returned";
\* flow_instance is its local variable, then the value it returns.
IdleThread == [at |-> "idle", name |-> "<None>", config |-> "<None>",
               flow_instance |-> NoFlow]

\* ------------------------------------------------------------- SimpleAgent
\* Scores and confidences are kept in hundredths (0.3 is 30): the sums the
\* code forms (0.3 + 0.2 + {0.3, 0.2} + 0.2) compare with 0.7, 0.4 and 1.0 in
\* floating point exactly as these integers compare with 70, 40 and 100.
BaseComplexity == 30
LengthBonus == 20
LengthThreshold == 200
ComplexSubjectBonus == 30
DISubjectBonus == 20
KeywordBonus == 20
MaxComplexity == 100
QualityThreshold == 70
PerformanceThreshold == 40
AnalysisConfidence == 85
PlanConfidence == 90
SuccessConfidence == 88
FailureConfidence == 30

\* Whether a context value is a dict (has .get).
IsQuestionDict(v) == v \in {"qSimple", "qComplex"}

\* The fields _assess_complexity reads from a question dict: subject,
\* len(question_text) and whether the text holds a complexity keyword.
QuestionRecord(v) ==
    IF v = "qComplex"
    THEN [subject |-> "Quant", text_len |-> 250, has_keyword |-> TRUE]
    ELSE [subject |-> "Verbal", text_len |-> 40, has_keyword |-> FALSE]

\* data.get("question", {}) of an empty dict: no subject, empty text.
EmptyQuestion == [subject |-> "", text_len |-> 0, has_keyword |-> FALSE]

Min(a, b) == IF a < b THEN a ELSE b

\* Mutant of assess_complexity: the length bonus goes to the short texts.
assess_complexity_short_bonus(question) ==
    LET c0 == BaseComplexity
        c1 == IF question.text_len < LengthThreshold THEN c0 + LengthBonus ELSE c0
        c2 == IF question.subject \in {"Quant", "Logic"} THEN c1 + ComplexSubjectBonus
              ELSE IF question.subject = "DI" THEN c1 + DISubjectBonus
              ELSE c1
        c3 == IF question.has_keyword THEN c2 + KeywordBonus ELSE c2
    IN Min(c3, MaxComplexity)

\* Mutant of assess_complexity: the keyword bonus is added twice over and the
\* final min is left out.
assess_complexity_uncapped(question) ==
    LET c0 == BaseComplexity
        c1 == IF question.text_len > LengthThreshold THEN c0 + LengthBonus ELSE c0
        c2 == IF question.subject \in {"Quant", "Logic"} THEN c1 + ComplexSubjectBonus
              ELSE IF question.subject = "DI" THEN c1 + DISubjectBonus
              ELSE c1
    IN IF question.has_keyword THEN c2 + KeywordBonus + KeywordBonus ELSE c2

\* SimpleAgent._assess_complexity.
assess_complexity(question) ==
    LET c0 == BaseComplexity
        c1 == IF question.text_len > LengthThreshold THEN c0 + LengthBonus ELSE c0
        c2 == IF question.subject \in {"Quant", "Logic"} THEN c1 + ComplexSubjectBonus
              ELSE IF question.subject = "DI" THEN c1 + DISubjectBonus
              ELSE c1
        c3 == IF question.has_keyword THEN c2 + KeywordBonus ELSE c2
    IN Min(c3, MaxComplexity)

\* Mutant of recommend_strategy: the quality threshold is inclusive.
recommend_strategy_inclusive(complexity) ==
    IF complexity >= QualityThreshold THEN "quality"
    ELSE IF complexity < PerformanceThreshold THEN "performance"
    ELSE "balanced"

\* SimpleAgent._recommend_strategy.
recommend_strategy(complexity) ==
    IF complexity > QualityThreshold THEN "quality"
    ELSE IF complexity < PerformanceThreshold THEN "performance"
    ELSE "balanced"

\* SimpleAgent._optimize_pipeline: the fixed per-step configs of a strategy.
optimize_pipeline(strategy) ==
    IF strategy = "quality"
    THEN D2("reasoning_extraction", "depth=enhanced,search_timeout=15",
            "llm_processing", "temperature=0.2,max_tokens=1000")
    ELSE IF strategy = "performance"
    THEN D2("reasoning_extraction", "depth=basic,search_timeout=5",
            "llm_processing", "temperature=0.7,max_tokens=500")
    ELSE D2("reasoning_extraction", "depth=standard,search_timeout=10",
            "llm_processing", "temperature=0.5,max_tokens=750")

\* Whether analyze_content raises: data["question"] is present and has no .get.
AnalyzeRaises(data) ==
    "question" \in DOMAIN data /\ ~IsQuestionDict(data["question"])

\* SimpleAgent.analyze_content, lines 70-81, on the question dict it has read.
analyze_question(question) ==
    LET complexity == assess_complexity(question)
    IN [complexity_score |-> complexity,
        recommended_strategy |-> recommend_strategy(complexity),
        confidence |-> AnalysisConfidence]

\* Mutant of analyze_content: a context without question is analysed as a
\* complex question.
analyze_content_complex_default(data) ==
    analyze_question(IF "question" \in DOMAIN data
                     THEN QuestionRecord(data["question"])
                     ELSE QuestionRecord("qComplex"))

\* SimpleAgent.analyze_content (for data on which it does not raise).
analyze_content(data) ==
    analyze_question(IF "question" \in DOMAIN data
                     THEN QuestionRecord(data["question"])
                     ELSE EmptyQuestion)

\* SimpleAgent.plan_strategy.
plan_strategy(analysis) ==
    [strategy |-> analysis.recommended_strategy,
     pipeline_config |-> optimize_pipeline(analysis.recommended_strategy),
     confidence |-> PlanConfidence]

NoPlan ==
    [analysis |-> [complexity_score |-> 0, recommended_strategy |-> "<None>",
                   confidence |-> 0],
     strategy |-> [strategy |-> "<None>", pipeline_config |-> EmptyDict,
                   confidence |-> 0]]

\* ------------------------------------------------- SimpleAgent, called alone
\* Subjects a question dict can carry ("" when it has none).
Subjects == {"Quant", "Logic", "DI", "Verbal", "Unknown", ""}

\* Lengths of question_text, around the length threshold.
TextLens == {0, LengthThreshold - 1, LengthThreshold, LengthThreshold + 1,
             LengthThreshold + 50}

\* Question dicts, by the fields _assess_complexity reads.
Questions == [subject : Subjects, text_len : TextLens, has_keyword : BOOLEAN]

\* Complexity scores, in hundredths.
Scores == 0 .. MaxComplexity

\* Contexts handed to analyze_content.
ProbeDatas == {EmptyDict, D1("subject", "Quant"), D1("question", "qSimple"),
               D1("question", "qComplex"), D1("question", "notADict")}

NoAnalysis == NoPlan.analysis

\* A SimpleAgent call under study: its argument (a context, a question dict
\* or a score) and, once made, what it produced.
ProbeOf(kind, data, question, score) ==
    [kind |-> kind, stage |-> "input", data |-> data, question |-> question,
     score |-> score, analysis |-> NoAnalysis, strategy |-> NoPlan.strategy,
     recommended |-> "<None>"]

ProbeInputs ==
    {ProbeOf("context", d, EmptyQuestion, 0) : d \in ProbeDatas}
    \cup {ProbeOf("question", EmptyDict, q, 0) : q \in Questions}
    \cup {ProbeOf("score", EmptyDict, EmptyQuestion, c) : c \in Scores}

\* No SimpleAgent call under study.
NoProbe == ProbeOf("none", EmptyDict, EmptyQuestion, 0)

\* --------------------------------------------------------------- FlowResult
\* FlowResult(success, data, error, metadata); metadata None becomes {}.
FlowResult(success, data, error, metadata) ==
    [success |-> success, data |-> data, error |-> error, metadata |-> metadata]

NoResult == FlowResult(FALSE, NoneData, PyNone, EmptyDict)

\* The entry appended to pipeline_results for one executed flow.
LogEntry(flow_name, success, error) ==
    [flow |-> flow_name, success |-> success, error |-> error]

\* A metadata value that is a dict (a str would have type "str").
DictValue(d) == [type |-> "dict", value |-> d]

\* Mutant of AgenticWrap: the agentic entries replace the result's metadata.
AgenticWrapReplacing(res, plan) ==
    [res EXCEPT !.metadata =
        [k \in {"session_id", "agent_analysis", "strategy_used",
                "execution_time", "confidence", "agentic_mode"} |->
            CASE k = "session_id" -> "uuid4"
              [] k = "agent_analysis" -> plan.analysis
              [] k = "strategy_used" -> DictValue(plan.strategy)
              [] k = "execution_time" -> "elapsed"
              [] k = "confidence" ->
                    IF res.success THEN SuccessConfidence ELSE FailureConfidence
              [] k = "agentic_mode" -> TRUE]]

\* _execute_agentic_pipeline, lines 341-357: final_result.metadata.update(...)
\* on the executor's result, with the confidence of SimpleAgent.execute_pipeline.
AgenticWrap(res, plan) ==
    [res EXCEPT !.metadata =
        DictUpdate(res.metadata,
            [k \in {"session_id", "agent_analysis", "strategy_used",
                    "execution_time", "confidence", "agentic_mode"} |->
                CASE k = "session_id" -> "uuid4"
                  [] k = "agent_analysis" -> plan.analysis
                  [] k = "strategy_used" -> DictValue(plan.strategy)
                  [] k = "execution_time" -> "elapsed"
                  [] k = "confidence" ->
                        IF res.success THEN SuccessConfidence ELSE FailureConfidence
                  [] k = "agentic_mode" -> TRUE])]

\* Mutant of AgenticFault: the failing result carries no metadata.
AgenticFaultUntagged(current, message) ==
    FlowResult(FALSE, current, <<"Agentic pipeline error: ">> \o message, EmptyDict)

\* _execute_agentic_pipeline's except branch.
AgenticFault(current, message) ==
    FlowResult(FALSE, current, <<"Agentic pipeline error: ">> \o message,
               [k \in {"session_id", "agentic_mode"} |->
                   IF k = "session_id" THEN "uuid4" ELSE TRUE])

\* ----------------------------------------------------------------- Init
\* UnifiedFlowEngine.__init__: empty _flows and _instances; no call running.
NewEngine ==
    /\ flows = EmptyDict
    /\ instances = EmptyDict
    /\ nextId = 0
    /\ last_create = NoCreate
    /\ pc = "idle"
    /\ call = [flow_names |-> <<>>, initial_data |-> NoneData,
               flow_configs |-> NoneData, agentic |-> FALSE, plan |-> NoPlan]
    /\ initial_data = NoneData
    /\ current_data = EmptyDict
    /\ aliased = FALSE
    /\ flow_configs = EmptyDict
    /\ pipeline_results = <<>>
    /\ idx = 0
    /\ trace = <<>>
    /\ result = NoResult
    /\ threads = [t \in Threads |-> IdleThread]
    /\ flow_registry = EmptyDict
    /\ imported = <<>>

\* The engine after construction; no SimpleAgent call is under study.
Init == NewEngine /\ probe = NoProbe

\* ------------------------------------------------- SimpleAgent, its methods
\* A SimpleAgent with an argument chosen for one of its methods.
InitAgent == NewEngine /\ probe \in ProbeInputs

agentFixed == <<registryVars, last_create, runVars, threads, importVars>>

\* agent.analyze_content(data): raises, or returns the analysis.
AnalyzeContent ==
    /\ probe.kind = "context" /\ probe.stage = "input"
    /\ probe' = IF AnalyzeRaises(probe.data)
                THEN [probe EXCEPT !.stage = "raised"]
                ELSE [probe EXCEPT !.stage = "analyzed",
                                   !.analysis = analyze_content(probe.data)]
    /\ UNCHANGED agentFixed

\* analyze_content from line 70 on, for a question dict of any shape.
AnalyzeQuestion ==
    /\ probe.kind = "question" /\ probe.stage = "input"
    /\ probe' = [probe EXCEPT !.stage = "analyzed",
                              !.analysis = analyze_question(probe.question)]
    /\ UNCHANGED agentFixed

\* agent.plan_strategy(analysis) on the analysis just made.
PlanStrategy ==
    /\ probe.stage = "analyzed"
    /\ probe' = [probe EXCEPT !.stage = "planned",
                              !.strategy = plan_strategy(probe.analysis)]
    /\ UNCHANGED agentFixed

\* agent._recommend_strategy(complexity) on a score of any value.
RecommendStrategy ==
    /\ probe.kind = "score" /\ probe.stage = "input"
    /\ probe' = [probe EXCEPT !.stage = "recommended",
                              !.recommended = recommend_strategy(probe.score)]
    /\ UNCHANGED agentFixed

NextAgent == AnalyzeContent \/ AnalyzeQuestion \/ PlanStrategy \/ RecommendStrategy

SpecAgent == InitAgent /\ [][NextAgent]_vars

\* -------------------------------------------------------- registry actions
\* engine.register_flow(name, flow_class), between pipeline runs.
RegisterFlow(name, flow_class) ==
    /\ pc = "idle"
    /\ flows' = register_flow(flows, name, flow_class)
    /\ last_create' = NoCreate
    /\ UNCHANGED <<instances, nextId>>
    /\ UNCHANGED runVars
    /\ UNCHANGED sideVars

\* engine.create_flow(name, config) called directly, between pipeline runs.
CreateFlow(name, config) ==
    /\ pc = "idle"
    /\ LET cr == create_flow(flows, instances, nextId, name, config)
       IN /\ cr.nextId <= MaxInstances
          /\ instances' = cr.instances
          /\ nextId' = cr.nextId
          /\ last_create' = [name |-> name, config |-> config, flow |-> cr.flow,
                             fresh |-> cr.nextId # nextId]
    /\ UNCHANGED flows
    /\ UNCHANGED runVars
    /\ UNCHANGED sideVars

\* ------------------------------------------- create_flow, statement by statement
\* Thread t enters create_flow(name, config).
ThreadCall(t, name, config) ==
    /\ threads[t].at = "idle"
    /\ threads' = [threads EXCEPT ![t] = [at |-> "registered", name |-> name,
                                          config |-> config,
                                          flow_instance |-> NoFlow]]
    /\ UNCHANGED <<registryVars, last_create, runVars, probe, importVars>>

\* Lines 203-205: `if name not in self._flows: return None`.
ThreadRegistered(t) ==
    /\ threads[t].at = "registered"
    /\ threads' = [threads EXCEPT ![t].at =
                      IF threads[t].name \notin DOMAIN flows THEN "returned"
                      ELSE "cached"]
    /\ UNCHANGED <<registryVars, last_create, runVars, probe, importVars>>

\* Lines 208-209: `if name in self._instances and config is None: return ...`.
ThreadCached(t) ==
    /\ threads[t].at = "cached"
    /\ threads' = [threads EXCEPT ![t] =
                      IF UseCached(instances, threads[t].name, threads[t].config)
                      THEN [@ EXCEPT !.at = "returned",
                                     !.flow_instance = instances[threads[t].name]]
                      ELSE [@ EXCEPT !.at = "construct"]]
    /\ UNCHANGED <<registryVars, last_create, runVars, probe, importVars>>

\* Line 213: `flow_instance = self._flows[name](config)`; a constructor that
\* raises takes the thread to the except branch, which returns None.
ThreadConstruct(t) ==
    /\ threads[t].at = "construct"
    /\ IF ConstructorRaises(flows[threads[t].name])
       THEN /\ threads' = [threads EXCEPT ![t].at = "returned"]
            /\ UNCHANGED nextId
       ELSE /\ nextId < MaxThreadInstances
            /\ nextId' = nextId + 1
            /\ threads' = [threads EXCEPT ![t] =
                   [@ EXCEPT !.at = "store",
                             !.flow_instance =
                                 BaseFlowInit(nextId + 1, flows[threads[t].name],
                                              threads[t].name, threads[t].config)]]
    /\ UNCHANGED <<flows, instances, last_create, runVars, probe, importVars>>

\* Lines 214-217: `if config is None: self._instances[name] = flow_instance`,
\* then `return flow_instance`.
ThreadStore(t) ==
    /\ threads[t].at = "store"
    /\ instances' = CacheDefault(instances, threads[t].name, threads[t].config,
                                 threads[t].flow_instance)
    /\ threads' = [threads EXCEPT ![t].at = "returned"]
    /\ UNCHANGED <<flows, nextId, last_create, runVars, probe, importVars>>

\* The caller takes the returned instance; the thread can call again.
ThreadReturn(t) ==
    /\ threads[t].at = "returned"
    /\ threads' = [threads EXCEPT ![t] = IdleThread]
    /\ UNCHANGED <<registryVars, last_create, runVars, probe, importVars>>

\* Threads registering flows and creating instances on one engine.
NextThreads ==
    \/ \E name \in Names, flow_class \in FlowClasses : RegisterFlow(name, flow_class)
    \/ \E t \in Threads, name \in ThreadNames, config \in {"None"} \cup CallerConfigs :
          ThreadCall(t, name, config)
    \/ \E t \in Threads : ThreadRegistered(t)
    \/ \E t \in Threads : ThreadCached(t)
    \/ \E t \in Threads : ThreadConstruct(t)
    \/ \E t \in Threads : ThreadStore(t)
    \/ \E t \in Threads : ThreadReturn(t)

SpecThreads == Init /\ [][NextThreads]_vars

\* ------------------------------------------------------------ pipeline run
\* Mutant of Returned: the agent's annotations are attached in both modes.
ReturnedAnnotated(res, c) == AgenticWrap(res, c.plan)

\* The value execute_pipeline returns: in agentic mode the executor's result
\* goes through _execute_agentic_pipeline's metadata update.
Returned(res, c) == IF c.agentic THEN AgenticWrap(res, c.plan) ELSE res

\* Mutant of AgentConfigs: the caller's flow_configs override the strategy's.
AgentConfigsOverridden(plan, cfgs) ==
    DictUpdate(plan.strategy.pipeline_config, OrEmpty(cfgs))

\* The flow_configs an agentic run hands to the executor: the plan's
\* pipeline_config (SimpleAgent.execute_pipeline, lines 104 and 110); the
\* caller's flow_configs are not passed on.
AgentConfigs(plan, cfgs) == plan.strategy.pipeline_config

\* Mutant of NoFlowsSpecified: the caller's context is handed back.
NoFlowsSpecifiedKeepsData(initial) ==
    FlowResult(FALSE, OrEmpty(initial), <<"No flows specified">>, EmptyDict)

\* Lines 247-248: the result for an empty flow_names, whatever initial_data.
NoFlowsSpecified(initial) ==
    FlowResult(FALSE, EmptyDict, <<"No flows specified">>, EmptyDict)

\* execute_pipeline(flow_names, initial_data, flow_configs, agentic) up to the
\* first iteration of the executor's loop: the agentic analysis and planning
\* (or their fault), the empty-sequence check, the `or {}` initialisations.
ExecutePipeline(names, init, cfgs, ag) ==
    /\ pc = "idle"
    /\ last_create' = NoCreate
    /\ initial_data' = init
    /\ trace' = <<>>
    /\ pipeline_results' = <<>>
    /\ UNCHANGED registryVars
    /\ UNCHANGED sideVars
    /\ LET agent_data == OrEmpty(init)
           faulted == ag /\ AnalyzeRaises(agent_data)
           analysis == analyze_content(agent_data)
           plan == IF ag /\ ~faulted
                   THEN [analysis |-> analysis, strategy |-> plan_strategy(analysis)]
                   ELSE NoPlan
           c == [flow_names |-> names, initial_data |-> init,
                 flow_configs |-> cfgs, agentic |-> ag, plan |-> plan]
           exec_data == IF ag THEN agent_data ELSE init
           exec_cfgs == IF ag THEN AgentConfigs(plan, cfgs) ELSE cfgs
       IN /\ call' = c
          /\ IF faulted
             THEN /\ pc' = "done"
                  /\ result' = AgenticFault(agent_data,
                                            <<"'str' object has no attribute 'get'">>)
                  /\ current_data' = agent_data
                  /\ aliased' = Truthy(init)
                  /\ flow_configs' = EmptyDict
                  /\ idx' = 0
             ELSE IF names = <<>>
             THEN /\ pc' = "done"
                  /\ result' = Returned(NoFlowsSpecified(exec_data), c)
                  /\ current_data' = EmptyDict
                  /\ aliased' = FALSE
                  /\ flow_configs' = EmptyDict
                  /\ idx' = 0
             ELSE /\ pc' = "running"
                  /\ result' = NoResult
                  /\ current_data' = OrEmpty(exec_data)
                  /\ aliased' = Truthy(exec_data)
                  /\ flow_configs' = OrEmpty(exec_cfgs)
                  /\ idx' = 1

\* metadata={"completed_flows": pipeline_results}.
CompletedFlows(pr) == D1("completed_flows", pr)

\* Mutant of CreateFailure: an entry for the unresolved name is logged.
CreateFailureLogged(cd, pr, flow_name) ==
    FlowResult(FALSE, cd, <<"Failed to create flow: ", flow_name>>,
               CompletedFlows(Append(pr,
                   LogEntry(flow_name, FALSE, <<"Failed to create flow: ", flow_name>>))))

\* Lines 262-270: create_flow returned None.
CreateFailure(cd, pr, flow_name) ==
    FlowResult(FALSE, cd, <<"Failed to create flow: ", flow_name>>,
               CompletedFlows(pr))

\* Mutant of NotCreated: the None returned by create_flow is not noticed.
NotCreatedNever(flow) == FALSE

\* Line 262: `if not flow`.
NotCreated(flow) == flow = NoFlow

\* Mutant of StopsPipeline: a failing result does not stop the loop.
StopsPipelineNever(out) == FALSE

\* Line 281: `if not result.success`.
StopsPipeline(out) == ~out.success

\* Mutant of StepFailure: the failing step's data is merged into the result.
StepFailureMerged(cd, pr, flow_name, out) ==
    FlowResult(FALSE, DictUpdate(cd, out.data),
               <<"Flow ", flow_name, " failed: ">> \o Str(out.error),
               CompletedFlows(pr))

\* Mutant of StepFailure: the step's own error is handed on as it is.
StepFailureRawError(cd, pr, flow_name, out) ==
    FlowResult(FALSE, cd, out.error, CompletedFlows(pr))

\* Lines 283-288: the result returned when a step's result is failing.
StepFailure(cd, pr, flow_name, out) ==
    FlowResult(FALSE, cd, <<"Flow ", flow_name, " failed: ">> \o Str(out.error),
               CompletedFlows(pr))

\* Mutant of StepException: the except branch returns without logging the step.
StepExceptionUnlogged(cd, pr, flow_name, message) ==
    LET error_msg == <<"Exception in flow ", flow_name, ": ">> \o message
    IN FlowResult(FALSE, cd, error_msg, CompletedFlows(pr))

\* Lines 293-306: the except branch; message is str(e).
StepException(cd, pr, flow_name, message) ==
    LET error_msg == <<"Exception in flow ", flow_name, ": ">> \o message
    IN FlowResult(FALSE, cd, error_msg,
                  CompletedFlows(Append(pr, LogEntry(flow_name, FALSE, error_msg))))

\* Lines 272-306 for one flow: execute, log, stop or merge. halted tells
\* whether the executor returned; result is then its FlowResult.
run_flow(cd, pr, flow_name, out) ==
    IF out.kind = "raise"
    THEN [halted |-> TRUE, current_data |-> cd,
          result |-> StepException(cd, pr, flow_name, out.error)]
    ELSE LET pr1 == Append(pr, LogEntry(flow_name, out.success, out.error))
         IN IF StopsPipeline(out)
            THEN [halted |-> TRUE, current_data |-> cd,
                  result |-> StepFailure(cd, pr1, flow_name, out)]
            ELSE IF ~IsDict(out.data)
            THEN \* current_data.update(None) raises TypeError inside the try
                 [halted |-> TRUE, current_data |-> cd,
                  result |-> StepException(cd, pr1, flow_name,
                                 <<"'NoneType' object is not iterable">>)]
            ELSE [halted |-> FALSE, current_data |-> DictUpdate(cd, out.data),
                  result |-> FlowResult(TRUE, DictUpdate(cd, out.data), PyNone,
                                        CompletedFlows(pr1))]

\* Mutant of StepConfig: every step is resolved without config.
StepConfigIgnored(cfgs, flow_name) == "None"

\* Line 258: `config = flow_configs.get(flow_name)`.
StepConfig(cfgs, flow_name) == DictGet(cfgs, flow_name)

\* Mutant of NextIndex: the loop does not advance.
NextIndexStuck(i) == i

\* `for flow_name in flow_names`: the position after position i.
NextIndex(i) == i + 1

\* One iteration of the executor's for loop (lines 256-306), and the return
\* after the loop (lines 308-313) when it was the last one.
RunFlow ==
    /\ pc = "running"
    /\ UNCHANGED <<flows, last_create, call, aliased, flow_configs>>
    /\ UNCHANGED sideVars
    /\ LET flow_name == call.flow_names[idx]
           config == StepConfig(flow_configs, flow_name)
           cr == create_flow(flows, instances, nextId, flow_name, config)
       IN /\ cr.nextId <= MaxInstances
          /\ instances' = cr.instances
          /\ nextId' = cr.nextId
          /\ IF NotCreated(cr.flow)
             THEN /\ trace' = Append(trace, [name |-> flow_name, flow |-> NoFlow,
                                             out |-> NoOutcome])
                  /\ pc' = "done"
                  /\ result' = Returned(CreateFailure(current_data,
                                            pipeline_results, flow_name), call)
                  /\ UNCHANGED <<initial_data, current_data, pipeline_results, idx>>
             ELSE \E out \in StepOutcomes :
                    LET r == run_flow(current_data, pipeline_results, flow_name, out)
                    IN /\ trace' = Append(trace, [name |-> flow_name,
                                                  flow |-> cr.flow, out |-> out])
                       /\ pipeline_results' = r.result.metadata["completed_flows"]
                       /\ current_data' = r.current_data
                       /\ initial_data' = IF aliased THEN r.current_data
                                          ELSE initial_data
                       /\ IF r.halted
                          THEN /\ pc' = "done"
                               /\ result' = Returned(r.result, call)
                               /\ idx' = idx
                          ELSE IF idx = Len(call.flow_names)
                          THEN /\ pc' = "done"
                               /\ result' = Returned(r.result, call)
                               /\ idx' = NextIndex(idx)
                          ELSE /\ pc' = "running"
                               /\ result' = NoResult
                               /\ idx' = NextIndex(idx)

\* The caller takes the result; the engine is ready for the next call.
ReturnResult ==
    /\ pc = "done"
    /\ pc' = "idle"
    /\ call' = [flow_names |-> <<>>, initial_data |-> NoneData,
                flow_configs |-> NoneData, agentic |-> FALSE, plan |-> NoPlan]
    /\ initial_data' = NoneData
    /\ current_data' = EmptyDict
    /\ aliased' = FALSE
    /\ flow_configs' = EmptyDict
    /\ pipeline_results' = <<>>
    /\ idx' = 0
    /\ trace' = <<>>
    /\ result' = NoResult
    /\ UNCHANGED <<registryVars, last_create>>
    /\ UNCHANGED sideVars

\* Configs of a direct create_flow call: omitted, or one a caller supplies.
CreateConfigs == {"None"} \cup CallerConfigs

Next ==
    \/ \E name \in Names, flow_class \in FlowClasses : RegisterFlow(name, flow_class)
    \/ \E name \in Names, config \in CreateConfigs : CreateFlow(name, config)
    \/ \E names \in FlowNameSeqs, init \in InitialDatas, cfgs \in FlowConfigs,
          ag \in BOOLEAN : ExecutePipeline(names, init, cfgs, ag)
    \/ RunFlow
    \/ ReturnResult

Spec == Init /\ [][Next]_vars

\* The executor's loop runs in the caller's thread and nothing in it waits:
\* an iteration that can be taken is taken.
SpecLive == Init /\ [][Next]_vars /\ WF_vars(RunFlow)

\* ------------------------------------------------- execute_pipeline, as a whole
\* The executor's for loop from position i on, for steps that do outs[j] at
\* position j: the FlowResult returned and the instances the positions
\* reached were given (NoFlow where create_flow returned None).
RECURSIVE standard_pipeline_loop(_, _, _, _, _, _, _, _, _)
standard_pipeline_loop(fl, inst, nid, flow_names, cfgs, cd, pr, outs, i) ==
    LET flow_name == flow_names[i]
        cr == create_flow(fl, inst, nid, flow_name, StepConfig(cfgs, flow_name))
    IN IF NotCreated(cr.flow)
       THEN [result |-> CreateFailure(cd, pr, flow_name), used |-> <<NoFlow>>]
       ELSE LET r == run_flow(cd, pr, flow_name, outs[i])
            IN IF r.halted \/ i = Len(flow_names)
               THEN [result |-> r.result, used |-> <<cr.flow>>]
               ELSE LET rest == standard_pipeline_loop(fl, cr.instances, cr.nextId,
                                    flow_names, cfgs, r.current_data,
                                    r.result.metadata["completed_flows"], outs,
                                    NextIndex(i))
                    IN [result |-> rest.result, used |-> <<cr.flow>> \o rest.used]

\* _execute_standard_pipeline(flow_names, initial_data, flow_configs).
execute_standard_pipeline(fl, inst, nid, flow_names, initial, cfgs, outs) ==
    IF flow_names = <<>>
    THEN [result |-> NoFlowsSpecified(initial), used |-> <<>>]
    ELSE standard_pipeline_loop(fl, inst, nid, flow_names, OrEmpty(cfgs),
                                OrEmpty(initial), <<>>, outs, 1)

\* execute_pipeline(flow_names, initial_data, flow_configs, agentic) from call
\* to return, on registry (fl, inst, nid).
execute_pipeline(fl, inst, nid, flow_names, initial, cfgs, agentic, outs) ==
    IF ~agentic
    THEN execute_standard_pipeline(fl, inst, nid, flow_names, initial, cfgs, outs)
    ELSE LET agent_data == OrEmpty(initial)
         IN IF AnalyzeRaises(agent_data)
            THEN [result |-> AgenticFault(agent_data,
                                 <<"'str' object has no attribute 'get'">>),
                  used |-> <<>>]
            ELSE LET analysis == analyze_content(agent_data)
                     plan == [analysis |-> analysis,
                              strategy |-> plan_strategy(analysis)]
                     inner == execute_standard_pipeline(fl, inst, nid, flow_names,
                                  agent_data, AgentConfigs(plan, cfgs), outs)
                 IN [result |-> AgenticWrap(inner.result, plan),
                     used |-> inner.used]

\* ----------------------------------------------- the two modes, side by side
\* What the steps of the compared runs do: succeed with data, fail without
\* an error, raise.
ModeOutcomes ==
    {o \in StepOutcomes :
        \/ o.kind = "raise"
        \/ o.kind = "return" /\ ~o.success /\ o.error = PyNone
        \/ o.kind = "return" /\ o.success /\ o.data = D1("question", "qSimple")}

\* The contexts the compared runs are given.
ModeInitialDatas == InitialDatas \ {NoneData}

\* execute_pipeline called on the registry as it stands, with the same
\* flow_names and initial_data and the same behaviour of the steps, once per
\* mode and per flow_configs of the caller; the registry is the same at the
\* start of each call.
CompareModes(names, init, outs) ==
    /\ pc = "idle"
    /\ probe = NoProbe
    /\ probe' = [kind |-> "modes", stage |-> "returned",
                 flow_names |-> names, initial_data |-> init, outs |-> outs,
                 direct |-> [c \in FlowConfigs |->
                     execute_pipeline(flows, instances, nextId, names, init, c,
                                      FALSE, outs)],
                 adaptive |-> [c \in FlowConfigs |->
                     execute_pipeline(flows, instances, nextId, names, init, c,
                                      TRUE, outs)]]
    /\ UNCHANGED <<registryVars, last_create, runVars, threads, importVars>>

\* Registrations and default creates, then the calls that are compared.
NextModes ==
    \/ \E name \in Names, flow_class \in FlowClasses :
          probe = NoProbe /\ RegisterFlow(name, flow_class)
    \/ \E name \in Names : probe = NoProbe /\ CreateFlow(name, "None")
    \/ \E names \in FlowNameSeqs, init \in ModeInitialDatas :
          \E outs \in [1 .. Len(names) -> ModeOutcomes] :
             CompareModes(names, init, outs)

SpecModes == Init /\ [][NextModes]_vars

\* ================================================================ properties
\* The merge the specification describes, stated on its own: on a key held by
\* both, the later mapping's value is the one kept.
LaterWins(d, e) ==
    [k \in DOMAIN d \cup DOMAIN e |-> IF k \in DOMAIN e THEN e[k] ELSE d[k]]

\* initial_context merged with the data returned by the first n steps of tr.
RECURSIVE MergedThrough(_, _, _)
MergedThrough(d, tr, n) ==
    IF n = 0 THEN d
    ELSE LaterWins(MergedThrough(d, tr, n - 1), tr[n].out.data)

\* The context a run starts from: the caller's mapping, or the empty one.
StartContext == IF IsDict(call.initial_data) THEN call.initial_data ELSE EmptyDict

\* The step at a trace entry was executed and returned a successful Outcome
\* whose data is a mapping.
StepSucceeded(e) ==
    e.flow # NoFlow /\ e.out.kind = "return" /\ e.out.success /\ IsDict(e.out.data)

\* The step at a trace entry was executed and failed: it returned a failing
\* Outcome or raised.
StepFailed(e) ==
    e.flow # NoFlow /\ (e.out.kind = "raise" \/ (e.out.kind = "return" /\ ~e.out.success))

\* The execution log carried by the returned result.
ExecutionLog == result.metadata["completed_flows"]

\* C1: a direct run of a non-empty sequence whose steps were all created and
\* all returned a successful Outcome runs every step, returns success=true and
\* data equal to initial_context merged with each step's data in order, the
\* later value winning a collision.
C1_AllSucceedMerged ==
    (/\ pc = "done"
     /\ ~call.agentic
     /\ call.flow_names # <<>>
     /\ \A i \in DOMAIN trace : StepSucceeded(trace[i]))
    => /\ result.success
       /\ result.error = PyNone
       /\ Len(trace) = Len(call.flow_names)
       /\ result.data = MergedThrough(StartContext, trace, Len(trace))

\* C1 witness: a finished two-step direct run in which the first step
\* overwrites a key of initial_context and the second overwrites it again.
C1_Witness ==
    /\ pc = "done"
    /\ ~call.agentic
    /\ result.success
    /\ Len(trace) = 2
    /\ call.initial_data = D1("question", "qComplex")
    /\ trace[1].out.data = D1("question", "qSimple")
    /\ trace[2].out.data = D2("question", "qComplex", "subject", "Verbal")
    /\ result.data = D2("question", "qComplex", "subject", "Verbal")

\* C2: when the only failing step is the k-th, the run returns success=false,
\* data holding exactly the merges of steps 1..k-1 (nothing of the failing
\* step's data), and a log of exactly k entries, the first k-1 successful and
\* the last failing.
C2_SingleFailureAtK ==
    (/\ pc = "done"
     /\ trace # <<>>
     /\ StepFailed(trace[Len(trace)])
     /\ \A i \in 1..(Len(trace) - 1) : StepSucceeded(trace[i]))
    => /\ ~result.success
       /\ result.data = MergedThrough(StartContext, trace, Len(trace) - 1)
       /\ Len(ExecutionLog) = Len(trace)
       /\ \A i \in 1..(Len(trace) - 1) :
             ExecutionLog[i].success /\ ExecutionLog[i].flow = trace[i].name
       /\ ~ExecutionLog[Len(trace)].success
       /\ ExecutionLog[Len(trace)].flow = trace[Len(trace)].name

\* C2 witness: a run whose second step returned a failing Outcome that
\* carried data, after a first step whose data was merged.
C2_Witness ==
    /\ pc = "done"
    /\ Len(trace) = 2
    /\ StepSucceeded(trace[1])
    /\ trace[2].out.kind = "return"
    /\ ~trace[2].out.success
    /\ Truthy(trace[2].out.data)
    /\ result.data = trace[1].out.data

\* An entry after which the run must not go on: the step could not be
\* created, raised, or returned a failing Outcome.
EntryStops(e) == e.flow = NoFlow \/ e.out.kind = "raise" \/ ~e.out.success

\* C3: fail-fast - once the last step reached has failed (failing Outcome,
\* raise, or no instance), no later step of the run is created or executed.
C3_FailFast ==
    [][(trace # <<>> /\ EntryStops(trace[Len(trace)]))
        => Len(trace') <= Len(trace)]_vars

\* C3 witness: a two-step run that ended after its first step failed.
C3_Witness ==
    /\ pc = "done"
    /\ Len(call.flow_names) = 2
    /\ Len(trace) = 1
    /\ trace[1].out.kind = "return"
    /\ ~trace[1].out.success

\* C4: re-registration invalidates the cached default instance - every
\* instance create_flow hands out, to a direct caller or to a run, was built
\* by the factory registered for its name at that moment, never by a
\* superseded one. (Registration happens only between calls, so flows is the
\* registration in force when the instance was handed out.)
C4_NoStaleInstance ==
    /\ last_create.flow # NoFlow => last_create.flow.cls = flows[last_create.name]
    /\ \A i \in DOMAIN trace :
          trace[i].flow # NoFlow => trace[i].flow.cls = flows[trace[i].name]

\* The run stopped at a name that is not registered.
StoppedAtUnregistered ==
    /\ pc = "done"
    /\ trace # <<>>
    /\ trace[Len(trace)].name \notin DOMAIN flows

\* C5 as claimed: a run stopping at an unregistered name in position k logs a
\* failing entry for that name, so the log has k entries.
C5_UnregisteredLogged ==
    StoppedAtUnregistered
    => /\ ~result.success
       /\ Len(ExecutionLog) = Len(trace)
       /\ ExecutionLog[Len(trace)].flow = trace[Len(trace)].name
       /\ ~ExecutionLog[Len(trace)].success

\* C5 as amended: a run stopping at an unregistered name in position k returns
\* a failing Outcome naming that step in its error, with the context
\* accumulated so far as data and the log of the k-1 steps executed before it;
\* no entry is logged for the unregistered name.
C5_UnregisteredNotLogged ==
    StoppedAtUnregistered
    => /\ ~result.success
       /\ result.error = <<"Failed to create flow: ", trace[Len(trace)].name>>
       /\ result.data = MergedThrough(StartContext, trace, Len(trace) - 1)
       /\ result.data = current_data
       /\ Len(ExecutionLog) = Len(trace) - 1
       /\ \A i \in 1..(Len(trace) - 1) :
             ExecutionLog[i].flow = trace[i].name /\ ExecutionLog[i].success

\* C5 witness: a run that stopped at an unregistered second name after its
\* first step had succeeded.
C5_Witness ==
    /\ StoppedAtUnregistered
    /\ Len(trace) = 2
    /\ StepSucceeded(trace[1])
    /\ Len(ExecutionLog) = 1

\* C6 as claimed: when a run stops at an unregistered name, no step of that
\* run was invoked, whatever the position of the name.
C6_NoStepInvoked ==
    StoppedAtUnregistered => \A i \in DOMAIN trace : trace[i].out = NoOutcome

\* C6 as amended: a run halts at the first unregistered name it reaches - the
\* step of that name is never invoked and the run is over - while every step
\* before that position has been invoked and succeeded.
C6_HaltsAtUnregistered ==
    \A i \in DOMAIN trace :
        trace[i].name \notin DOMAIN flows
        => /\ trace[i].out = NoOutcome
           /\ i = Len(trace)
           /\ pc = "done"
           /\ ~result.success
           /\ \A j \in 1..(i - 1) : StepSucceeded(trace[j])

\* C6 witness: the unregistered name was reached in second position, after an
\* invoked first step.
C6_Witness ==
    /\ StoppedAtUnregistered
    /\ Len(trace) = 2
    /\ trace[1].out # NoOutcome
    /\ trace[2].out = NoOutcome

\* C7: the mapping the caller passed as initial_context holds the same keys
\* and values during and after the run as when it was passed.
C7_CallerContextUntouched ==
    (pc \in {"running", "done"} /\ IsDict(call.initial_data))
    => initial_data = call.initial_data

\* A step of the model in which the Pipeline Executor is entered with an empty
\* step sequence (directly, or by the coordinator once analysis and planning
\* are done).
EmptyRunStarts ==
    /\ pc = "idle"
    /\ pc' # "idle"
    /\ call'.flow_names = <<>>
    /\ ~(call'.agentic /\ AnalyzeRaises(OrEmpty(call'.initial_data)))

\* C8: a run of the Pipeline Executor with an empty step sequence fails at
\* once - success=false, a non-empty error, empty data whatever
\* initial_context was - and neither invokes a step nor creates an instance.
C8_EmptySequenceFails ==
    [][EmptyRunStarts
        => /\ pc' = "done"
           /\ ~result'.success
           /\ result'.error # PyNone
           /\ Len(result'.error) > 0
           /\ result'.data = EmptyDict
           /\ trace' = <<>>
           /\ UNCHANGED <<flows, instances, nextId>>]_vars

\* C8 witness: an empty-sequence run over a non-empty initial_context ended.
C8_Witness ==
    /\ pc = "done"
    /\ call.flow_names = <<>>
    /\ ~call.agentic
    /\ Truthy(call.initial_data)
    /\ result.data = EmptyDict

\* C9: create(name) without config reuses the default instance. With none
\* cached (and a factory that constructs) it builds one, caches and returns
\* it; with one cached it returns that very instance and constructs nothing;
\* and no step of the engine ever replaces or drops a cached instance, so at
\* most one default instance is ever built for a name.
C9_DefaultInstanceReused ==
    [][/\ \A name \in Names :
            CreateFlow(name, "None")
            => IF name \in DOMAIN instances
               THEN /\ last_create'.flow = instances[name]
                    /\ nextId' = nextId
                    /\ instances' = instances
               ELSE (name \in DOMAIN flows /\ flows[name] \in GoodClasses)
                    => /\ last_create'.flow.id = nextId + 1
                       /\ last_create'.flow.cls = flows[name]
                       /\ last_create'.flow.config = "{}"
                       /\ nextId' = nextId + 1
                       /\ name \in DOMAIN instances'
                       /\ instances'[name] = last_create'.flow
       /\ \A name \in DOMAIN instances :
            name \in DOMAIN instances' /\ instances'[name] = instances[name]]_vars

\* C9 witness: a create(name) without config that returned the instance
\* already cached, constructing nothing.
C9_Witness ==
    /\ last_create.config = "None"
    /\ last_create.flow # NoFlow
    /\ ~last_create.fresh
    /\ instances[last_create.name] = last_create.flow

\* C10: create(name, config) with a config supplied leaves the default-instance
\* cache as it was and, for a registered name whose factory constructs,
\* returns a newly constructed instance carrying that config - one never
\* handed out before, so neither the cached instance nor the instance of
\* another such call. A configured step of a run leaves the cache alone too.
C10_ConfiguredNeverCached ==
    [][/\ \A name \in Names, config \in CallerConfigs :
            CreateFlow(name, config)
            => /\ instances' = instances
               /\ (name \in DOMAIN flows /\ flows[name] \in GoodClasses)
                  => /\ last_create'.flow # NoFlow
                     /\ last_create'.flow.id > nextId
                     /\ last_create'.flow.id = nextId'
                     /\ last_create'.flow.cls = flows[name]
                     /\ last_create'.flow.config = config
                     /\ \A n \in DOMAIN instances' :
                            instances'[n] # last_create'.flow
       /\ (pc = "running" /\ DictGet(flow_configs, call.flow_names[idx]) # "None")
            => instances' = instances]_vars

\* C10 witness: a configured create for a name that has a cached default
\* instance returned a different, new instance.
C10_Witness ==
    /\ last_create.config = "depth=custom"
    /\ last_create.flow # NoFlow
    /\ last_create.fresh
    /\ last_create.name \in DOMAIN instances
    /\ instances[last_create.name].id # last_create.flow.id

\* ------------------------------------------------------------------- C11
\* A thread that is back from create_flow(name) without config with an instance.
DefaultReturned(t) ==
    /\ threads[t].at = "returned"
    /\ threads[t].config = "None"
    /\ threads[t].flow_instance # NoFlow

\* C11: concurrent create(name) calls without config for one registered name
\* exclude each other over check-cache / construct / insert: whatever the
\* interleaving, callers that are back with an instance hold the same instance,
\* and no two threads are each holding a default instance for the name that
\* they constructed themselves.
C11_OneDefaultInstance ==
    \A t1 \in Threads, t2 \in Threads :
        (t1 # t2 /\ threads[t1].name = threads[t2].name) =>
            /\ (DefaultReturned(t1) /\ DefaultReturned(t2)) =>
                   threads[t1].flow_instance = threads[t2].flow_instance
            /\ (threads[t1].at = "store" /\ threads[t2].at = "store"
                /\ threads[t1].config = "None" /\ threads[t2].config = "None") =>
                   FALSE

\* ------------------------------------------------------------------- C12
\* A thread that is back from create_flow(name, config) with a supplied config
\* and an instance.
ConfiguredReturned(t) ==
    /\ threads[t].at = "returned"
    /\ threads[t].config # "None"
    /\ threads[t].flow_instance # NoFlow

\* C12: two callers that concurrently ask create(name, config) with supplied
\* configs never receive the same instance, and each receives an instance
\* carrying its own config, whatever the interleaving, calls without config
\* for the same name included.
C12_ConfiguredNeverShared ==
    \A t1 \in Threads, t2 \in Threads :
        (t1 # t2 /\ ConfiguredReturned(t1) /\ ConfiguredReturned(t2)) =>
            /\ threads[t1].flow_instance.id # threads[t2].flow_instance.id
            /\ threads[t1].flow_instance.config
                   = BaseFlowInit(0, "FlowA", "n", threads[t1].config).config
            /\ threads[t2].flow_instance.config
                   = BaseFlowInit(0, "FlowA", "n", threads[t2].config).config

\* Two callers are back with instances for one name under different supplied
\* configs while a default instance of that name sits in the cache.
C12_Witness ==
    \E t1 \in Threads, t2 \in Threads :
        /\ t1 # t2
        /\ ConfiguredReturned(t1) /\ ConfiguredReturned(t2)
        /\ threads[t1].name = threads[t2].name
        /\ threads[t1].config # threads[t2].config
        /\ threads[t1].name \in DOMAIN instances

\* ------------------------------------------------------------------- C13
\* create_flow(name, config) has to construct and cannot: the name is not
\* registered, or no cached instance answers the call and the factory raises.
CannotCreate(name, config) ==
    IF name \notin DOMAIN flows THEN TRUE
    ELSE /\ ~(name \in DOMAIN instances /\ config = "None")
         /\ flows[name] = "BrokenFlow"

\* C13: create(name, config?) for a name that is not registered returns None
\* (no instance) and leaves the factory table and the default-instance cache
\* as they were; a factory that raises while constructing likewise yields
\* None, and nothing is cached or constructed.
C13_NotFoundLeavesRegistry ==
    [][\A name \in Names, config \in CreateConfigs :
          (CreateFlow(name, config) /\ CannotCreate(name, config)) =>
              /\ last_create'.flow = NoFlow
              /\ ~last_create'.fresh
              /\ flows' = flows
              /\ instances' = instances
              /\ nextId' = nextId]_vars

\* A create without config has just come back with None from a registered
\* factory that raises, and the cache, which holds another name's instance,
\* has no entry for the name.
C13_Witness ==
    /\ last_create.name \in DOMAIN flows
    /\ flows[last_create.name] = "BrokenFlow"
    /\ last_create.config = "None"
    /\ last_create.flow = NoFlow
    /\ last_create.name \notin DOMAIN instances
    /\ instances # EmptyDict

\* ------------------------------------------------------------------- C14
\* The run has returned and the last step it reached raised inside execute.
LastStepRaised ==
    /\ pc = "done"
    /\ trace # <<>>
    /\ trace[Len(trace)].flow # NoFlow
    /\ trace[Len(trace)].out.kind = "raise"

\* C14: an exception raised inside a step's execute does not escape the run:
\* the run returns a failing result whose error carries the exception's
\* message, whose data is the context accumulated from the earlier successful
\* steps, and whose log has one entry per step reached, the last one the
\* failing entry of the raising step; the raising step is the last one run.
C14_StepFaultContained ==
    LastStepRaised =>
        LET k == Len(trace)
            e == trace[k]
            error_msg == <<"Exception in flow ", e.name, ": ">> \o e.out.error
        IN /\ ~result.success
           /\ result.error = error_msg
           /\ result.data = MergedThrough(StartContext, trace, k - 1)
           /\ Len(ExecutionLog) = k
           /\ ExecutionLog[k] = LogEntry(e.name, FALSE, error_msg)
           /\ \A i \in 1 .. k - 1 :
                 /\ StepSucceeded(trace[i])
                 /\ ExecutionLog[i] = LogEntry(trace[i].name, TRUE, PyNone)
           /\ e.name = call.flow_names[k]

\* A two-step run whose first step succeeded and changed the context and
\* whose second step raised.
C14_Witness ==
    /\ LastStepRaised
    /\ Len(trace) = 2
    /\ StepSucceeded(trace[1])
    /\ result.data # StartContext
    /\ result.data = LaterWins(StartContext, trace[1].out.data)

\* ------------------------------------------------------------------- C15
\* An error that is a string with at least one character (not None, not "").
NonEmptyString(error) ==
    /\ error # PyNone
    /\ \E i \in 1 .. Len(error) : error[i] # ""

\* C15: every result execute_pipeline returns, direct or agentic, has a
\* non-empty error string when success is false and no error (None) when
\* success is true, also when the failing step returned success=false
\* without setting an error.
C15_ErrorIffFailure ==
    pc = "done" =>
        /\ ~result.success => NonEmptyString(result.error)
        /\ result.error # PyNone => ~result.success

\* An agentic run has returned after a step gave success=false with error
\* None: the result's error is the text composed around "None".
C15_Witness ==
    /\ pc = "done"
    /\ call.agentic
    /\ trace # <<>>
    /\ trace[Len(trace)].flow # NoFlow
    /\ trace[Len(trace)].out.kind = "return"
    /\ ~trace[Len(trace)].out.success
    /\ trace[Len(trace)].out.error = PyNone
    /\ ~result.success
    /\ result.error = <<"Flow ", trace[Len(trace)].name, " failed: ", "None">>

\* ------------------------------------------------------------------- C16
\* Positions of flow_names and the steps reached agree: entry i of the trace
\* is position i of the sequence, so no position is executed twice, and a
\* running loop stands at the position after the last one reached.
PositionsOnce ==
    /\ Len(trace) <= Len(call.flow_names)
    /\ \A i \in 1 .. Len(trace) : trace[i].name = call.flow_names[i]
    /\ pc = "running" => (idx = Len(trace) + 1 /\ idx <= Len(call.flow_names))

\* What execute_pipeline hands back is a FlowResult: a success flag, a context
\* mapping, an error that is None exactly on success, a metadata mapping.
ReturnedOutcome ==
    /\ result.success \in BOOLEAN
    /\ IsDict(result.data)
    /\ result.success <=> result.error = PyNone
    /\ IsDict(result.metadata)

\* The model's instance budget suffices for the positions still to run.
BudgetForRest == nextId + (Len(call.flow_names) - idx + 1) <= MaxInstances

\* C16: every call of execute_pipeline on a finite sequence of steps that
\* return or raise comes back with a FlowResult - whether a name is
\* unregistered, a step fails or raises, a factory raises or the agent's
\* analysis faults - and runs each position of the sequence at most once.
C16_Terminates ==
    /\ []PositionsOnce
    /\ [](pc = "done" => ReturnedOutcome)
    /\ (pc = "running" /\ BudgetForRest) ~> (pc = "done")

\* An agentic run of a full-length sequence has come back after running every
\* position once, both steps on fresh instances.
C16_Witness ==
    /\ pc = "done"
    /\ call.agentic
    /\ Len(call.flow_names) = MaxSteps
    /\ Len(trace) = MaxSteps
    /\ ReturnedOutcome
    /\ result.success

\* ------------------------------------------------------------------- C17
\* The strategy the thresholds 0.7 and 0.4 give for a score (in hundredths).
StrategyByThresholds(score) ==
    IF score > 70 THEN "quality"
    ELSE IF score < 40 THEN "performance"
    ELSE "balanced"

\* C17: the strategy is a function of the complexity score alone: above 0.7
\* quality, below 0.4 performance, anything else (0.4 and 0.7 included)
\* balanced; and the strategy named in a plan is the one this function gives
\* for the score of the analysis the plan was made from.
C17_StrategyFromScore ==
    /\ probe.stage = "recommended" =>
           probe.recommended = StrategyByThresholds(probe.score)
    /\ probe.stage = "planned" =>
           /\ probe.strategy.strategy
                  = StrategyByThresholds(probe.analysis.complexity_score)
           /\ probe.analysis.recommended_strategy = probe.strategy.strategy

\* _recommend_strategy has answered balanced for the score 0.7 itself.
C17_Witness ==
    /\ probe.stage = "recommended"
    /\ probe.score = 70
    /\ probe.recommended = "balanced"

\* ------------------------------------------------------------------- C18
\* C18: the complexity score of an analysis is within [0.0, 1.0] whatever the
\* context and the question in it, never below the base score 0.3; and the
\* analysis of an empty context does not raise and yields the base score.
C18_ScoreInUnitRange ==
    /\ probe.stage \in {"analyzed", "planned"} =>
           /\ probe.analysis.complexity_score >= 0
           /\ probe.analysis.complexity_score <= 100
           /\ probe.analysis.complexity_score >= 30
    /\ (probe.kind = "context" /\ probe.data = EmptyDict /\ probe.stage # "input") =>
           /\ probe.stage # "raised"
           /\ probe.analysis.complexity_score = 30

\* The empty context has been analysed: the score is the base score, the
\* strategy performance.
C18_Witness ==
    /\ probe.kind = "context"
    /\ probe.data = EmptyDict
    /\ probe.stage = "analyzed"
    /\ probe.analysis.complexity_score = 30
    /\ probe.analysis.recommended_strategy = "performance"

\* ------------------------------------------------------------------- C19
\* The context of the call holds a question of a high-complexity subject
\* whose text is longer than the length threshold.
ComplexLongQuestion ==
    /\ IsDict(call.initial_data)
    /\ "question" \in DOMAIN call.initial_data
    /\ IsQuestionDict(call.initial_data["question"])
    /\ QuestionRecord(call.initial_data["question"]).subject \in {"Quant", "Logic"}
    /\ QuestionRecord(call.initial_data["question"]).text_len > 200

\* C19: an agentic run over a context whose question has a high-complexity
\* subject and a text longer than the length threshold returns a result whose
\* metadata.strategy_used is the strategy name quality and whose
\* metadata.confidence lies in (0, 1], whether the pipeline succeeded or not.
C19_QualityStrategyUsed ==
    (pc = "done" /\ call.agentic /\ ComplexLongQuestion) =>
        /\ result.metadata["strategy_used"].type = "str"
        /\ result.metadata["strategy_used"].value = "quality"
        /\ result.metadata["confidence"] > 0
        /\ result.metadata["confidence"] <= 100

\* ------------------------------------------------------------------- C20
\* The entries an agentic run adds to the metadata (the analysis is stored
\* under agent_analysis).
AgenticKeys == {"session_id", "agent_analysis", "strategy_used",
                "execution_time", "confidence", "agentic_mode"}

\* The metadata of the executor's own result: the log of the steps it ran,
\* nothing for an empty sequence.
InnerMetadata ==
    IF call.flow_names = <<>> THEN EmptyDict
    ELSE [k \in {"completed_flows"} |-> pipeline_results]

\* The agent's analysis raised: the context's question is not a dict.
AnalysisFaulted ==
    /\ "question" \in DOMAIN StartContext
    /\ ~IsQuestionDict(StartContext["question"])

\* C20 as claimed: after any agentic run, successful or failing, the result's
\* metadata contains session_id, the analysis, strategy_used, execution_time,
\* confidence and agentic_mode=true, merged into the executor's metadata.
C20_AllKeysAfterAnyRun ==
    (pc = "done" /\ call.agentic) =>
        /\ AgenticKeys \subseteq DOMAIN result.metadata
        /\ result.metadata["agentic_mode"] = TRUE
        /\ \A k \in DOMAIN InnerMetadata :
              k \in DOMAIN result.metadata /\ result.metadata[k] = InnerMetadata[k]

\* C20, amended: after an agentic run whose analysis did not raise, successful
\* or failing, the result's metadata is the executor's metadata (the
\* execution log, unchanged) plus session_id, the analysis, the plan under
\* strategy_used, execution_time, confidence and agentic_mode=true; after a
\* run whose analysis raised it holds session_id and agentic_mode=true only.
C20_MetadataMerged ==
    (pc = "done" /\ call.agentic) =>
        IF AnalysisFaulted
        THEN /\ DOMAIN result.metadata = {"session_id", "agentic_mode"}
             /\ result.metadata["agentic_mode"] = TRUE
             /\ ~result.success
        ELSE /\ DOMAIN result.metadata = AgenticKeys \cup DOMAIN InnerMetadata
             /\ \A k \in DOMAIN InnerMetadata : result.metadata[k] = InnerMetadata[k]
             /\ result.metadata["agentic_mode"] = TRUE
             /\ result.metadata["agent_analysis"] = call.plan.analysis
             /\ result.metadata["strategy_used"] = DictValue(call.plan.strategy)
             /\ result.metadata["confidence"] = (IF result.success THEN 88 ELSE 30)

\* A failing agentic run whose executor logged two steps: the log is in the
\* metadata next to the six agentic entries.
C20_Witness ==
    /\ pc = "done"
    /\ call.agentic
    /\ ~AnalysisFaulted
    /\ ~result.success
    /\ Len(pipeline_results) = 2
    /\ result.metadata["completed_flows"] = pipeline_results
    /\ AgenticKeys \subseteq DOMAIN result.metadata

\* ------------------------------------------------------------------- C21
\* The run variables of an engine on which no call is in progress.
NoRun ==
    <<"idle",
      [flow_names |-> <<>>, initial_data |-> NoneData, flow_configs |-> NoneData,
       agentic |-> FALSE, plan |-> NoPlan],
      NoneData, EmptyDict, FALSE, EmptyDict, <<>>, 0, <<>>, NoResult>>

\* C21: a fault raised in a phase of an agentic run is caught and returned as
\* a failing result that carries a session identifier and agentic_mode=true;
\* no step has run, the caller's context and the registry (_flows,
\* _instances, the instances constructed) are as before the call, and once
\* the result is taken the engine is in the state it had before the call.
C21_CoordinationFaultContained ==
    [][/\ (pc = "idle" /\ pc' = "done" /\ call'.agentic /\ AnalysisFaulted') =>
            /\ ~result'.success
            /\ NonEmptyString(result'.error)
            /\ "session_id" \in DOMAIN result'.metadata
            /\ "agentic_mode" \in DOMAIN result'.metadata
            /\ result'.metadata["agentic_mode"] = TRUE
            /\ trace' = <<>>
            /\ initial_data' = call'.initial_data
            /\ result'.data = call'.initial_data
            /\ registryVars' = registryVars
       /\ (pc = "done" /\ call.agentic /\ AnalysisFaulted /\ pc' = "idle") =>
            /\ registryVars' = registryVars
            /\ runVars' = NoRun]_vars

\* An agentic run on an engine with a cached instance has come back from a
\* fault of the analysis.
C21_Witness ==
    /\ pc = "done"
    /\ call.agentic
    /\ AnalysisFaulted
    /\ instances # EmptyDict
    /\ call.flow_names # <<>>
    /\ result.metadata = [k \in {"session_id", "agentic_mode"} |->
                             IF k = "session_id" THEN "uuid4" ELSE TRUE]

\* ------------------------------------------------------------------- C22
\* The error of the executor's own result, read off the steps it reached:
\* None when every step ran and merged.
ExecutorError ==
    IF call.flow_names = <<>> THEN <<"No flows specified">>
    ELSE LET e == trace[Len(trace)]
         IN IF e.flow = NoFlow THEN <<"Failed to create flow: ", e.name>>
            ELSE IF e.out.kind = "raise"
            THEN <<"Exception in flow ", e.name, ": ">> \o e.out.error
            ELSE IF ~e.out.success
            THEN <<"Flow ", e.name, " failed: ">> \o Str(e.out.error)
            ELSE IF ~IsDict(e.out.data)
            THEN <<"Exception in flow ", e.name, ": ",
                   "'NoneType' object is not iterable">>
            ELSE PyNone

\* C22: execute_pipeline dispatches on the agentic flag. Without it the
\* result is the executor's own: no analysis or plan is made and the metadata
\* is the executor's, with none of the agent's keys. With it the executor
\* runs once, after the analysis and the plan, over the positions of the
\* sequence, and its failure is returned as success=false with its error.
C22_DispatchOnFlag ==
    pc = "done" =>
        /\ ~call.agentic =>
              /\ call.plan = NoPlan
              /\ result.metadata = InnerMetadata
              /\ DOMAIN result.metadata \cap AgenticKeys = {}
              /\ result.error = ExecutorError
              /\ result.success <=> ExecutorError = PyNone
        /\ (call.agentic /\ ~AnalysisFaulted) =>
              /\ call.plan # NoPlan
              /\ call.plan.strategy = plan_strategy(call.plan.analysis)
              /\ PositionsOnce
              /\ result.error = ExecutorError
              /\ result.success <=> ExecutorError = PyNone

\* An agentic run has come back failing because its second step could not be
\* created: the error is the executor's.
C22_Witness ==
    /\ pc = "done"
    /\ call.agentic
    /\ ~AnalysisFaulted
    /\ Len(trace) = 2
    /\ trace[2].flow = NoFlow
    /\ ~result.success
    /\ result.error = <<"Failed to create flow: ", trace[2].name>>

\* ------------------------------------------------------------------- C23
\* The execution log of a result (empty when the executor attached none).
LogOf(res) ==
    IF "completed_flows" \in DOMAIN res.metadata
    THEN res.metadata["completed_flows"] ELSE <<>>

\* C23: the two modes agree: called on the same registry with the same
\* flow_names, initial_data and flow_configs, and with steps that behave the
\* same, the agentic run returns the success, data, error and execution log
\* of the direct run, and its metadata is the direct run's plus the agent's
\* entries.
C23_ModesAgree ==
    probe.kind = "modes" =>
        \A c \in FlowConfigs :
            LET d == probe.direct[c].result
                a == probe.adaptive[c].result
            IN /\ a.success = d.success
               /\ a.data = d.data
               /\ a.error = d.error
               /\ LogOf(a) = LogOf(d)
               /\ DOMAIN a.metadata = DOMAIN d.metadata \cup AgenticKeys
               /\ \A k \in DOMAIN d.metadata : a.metadata[k] = d.metadata[k]

\* ------------------------------------------------------------------- C27
\* The configs of the instances the positions of a run were given.
ConfigsUsed(run) == [i \in 1 .. Len(run.used) |-> run.used[i].config]

\* C27: in agentic mode the flow_configs of the caller have no effect: two
\* agentic runs on the same registry with the same flow_names and
\* initial_data that differ in the caller's flow_configs only give every
\* step the same config and return the same success, data and error.
C27_CallerConfigsIgnored ==
    probe.kind = "modes" =>
        \A c1 \in FlowConfigs, c2 \in FlowConfigs :
            LET a1 == probe.adaptive[c1]
                a2 == probe.adaptive[c2]
            IN /\ ConfigsUsed(a1) = ConfigsUsed(a2)
               /\ a1.result.success = a2.result.success
               /\ a1.result.data = a2.result.data
               /\ a1.result.error = a2.result.error

\* A caller's config for reasoning_extraction reaches the step in the direct
\* run and not in the agentic run, where the step runs under the strategy's.
C27_Witness ==
    /\ probe.kind = "modes"
    /\ probe.flow_names = <<"reasoning_extraction">>
    /\ \E c \in FlowConfigs :
          /\ "reasoning_extraction" \in DOMAIN c
          /\ ConfigsUsed(probe.direct[c]) = <<c["reasoning_extraction"]>>
          /\ ConfigsUsed(probe.adaptive[c]) = <<"depth=basic,search_timeout=5">>
          /\ ConfigsUsed(probe.adaptive[NoneData]) = ConfigsUsed(probe.adaptive[c])

\* ------------------------------------------------------------------- C24
\* The positions of the run whose step was invoked (an instance was obtained
\* and execute was called on it).
Invoked == {i \in 1 .. Len(trace) : trace[i].flow # NoFlow}

\* C24: the execution log holds exactly one entry per step invoked, in the
\* order of invocation, which is the order of the sequence, and an entry,
\* once appended, is never changed - on every exit path, a successful step
\* whose data cannot be merged included.
C24_OneEntryPerInvokedStep ==
    /\ [](pc = "done" =>
            /\ Len(LogOf(result)) = Cardinality(Invoked)
            /\ \A i \in 1 .. Len(LogOf(result)) :
                  i \in Invoked /\ LogOf(result)[i].flow = trace[i].name)
    /\ [][pc = "running" =>
            /\ Len(pipeline_results') >= Len(pipeline_results)
            /\ \A i \in 1 .. Len(pipeline_results) :
                  pipeline_results'[i] = pipeline_results[i]]_vars

\* ------------------------------------------------------------------- C25
\* Question hi has one factor that question lo lacks - a text longer than 200
\* characters, a subject of a complex category, a complexity keyword - and
\* is otherwise the same.
HasFactorOver(hi, lo) ==
    \/ /\ hi.text_len > 200 /\ lo.text_len <= 200
       /\ hi.subject = lo.subject /\ hi.has_keyword = lo.has_keyword
    \/ /\ hi.subject \in {"Quant", "Logic", "DI"}
       /\ lo.subject \notin {"Quant", "Logic", "DI"}
       /\ hi.text_len = lo.text_len /\ hi.has_keyword = lo.has_keyword
    \/ /\ hi.has_keyword /\ ~lo.has_keyword
       /\ hi.subject = lo.subject /\ hi.text_len = lo.text_len

\* C25: the complexity heuristic is monotonic in its factors: a question
\* that has a factor another question lacks, and is otherwise the same,
\* scores at least as much; and no score exceeds 1.0.
C25_MonotonicInFactors ==
    (probe.kind = "question" /\ probe.stage \in {"analyzed", "planned"}) =>
        /\ probe.analysis.complexity_score <= 100
        /\ \A lo \in Questions :
              HasFactorOver(probe.question, lo) =>
                  probe.analysis.complexity_score >= assess_complexity(lo)
        /\ \A hi \in Questions :
              HasFactorOver(hi, probe.question) =>
                  assess_complexity(hi) >= probe.analysis.complexity_score

\* A long Quant question with a keyword has been scored 1.0, above the 0.8
\* of the same question with a short text.
C25_Witness ==
    /\ probe.kind = "question"
    /\ probe.stage = "analyzed"
    /\ probe.question.subject = "Quant"
    /\ probe.question.text_len > 200
    /\ probe.question.has_keyword
    /\ probe.analysis.complexity_score = 100
    /\ \E lo \in Questions :
          /\ HasFactorOver(probe.question, lo)
          /\ lo.text_len <= 200
          /\ assess_complexity(lo) = 80

\* ------------------------------------------------------------------- C26
\* The instance the loop's iteration has just obtained for its position.
Obtained == trace'[Len(trace')].flow

\* C26: within a run each step's instance is resolved from flow_configs. A
\* step whose name has an entry runs on an instance constructed for it, with
\* exactly that config, and the cache of default instances stays as it was;
\* a step without entry runs on the cached default instance, whose config
\* is empty, constructed only when none was cached. In an agentic run
\* flow_configs is the pipeline_config of the strategy chosen.
C26_StepConfigResolved ==
    /\ [][(pc = "running" /\ Len(trace') = Len(trace) + 1 /\ Obtained # NoFlow) =>
            LET flow_name == call.flow_names[idx]
            IN IF flow_name \in DOMAIN flow_configs
               THEN /\ Obtained.config = flow_configs[flow_name]
                    /\ Obtained.id = nextId + 1
                    /\ nextId' = nextId + 1
                    /\ instances' = instances
               ELSE /\ Obtained = instances'[flow_name]
                    /\ Obtained.config = "{}"
                    /\ IF flow_name \in DOMAIN instances
                       THEN instances' = instances /\ nextId' = nextId
                       ELSE /\ nextId' = nextId + 1
                            /\ Obtained.id = nextId + 1
                            /\ instances' = DictPut(instances, flow_name, Obtained)]_vars
    /\ []((pc = "running" /\ call.agentic) =>
            /\ flow_configs = optimize_pipeline(call.plan.strategy.strategy)
            /\ flow_configs = call.plan.strategy.pipeline_config)

\* An agentic run has run reasoning_extraction on an instance made for the
\* step with the performance strategy's config while another instance sits in
\* the cache under that name.
C26_Witness ==
    /\ pc = "done"
    /\ call.agentic
    /\ trace # <<>>
    /\ trace[Len(trace)].name = "reasoning_extraction"
    /\ trace[Len(trace)].flow # NoFlow
    /\ trace[Len(trace)].flow.config = "depth=basic,search_timeout=5"
    /\ "reasoning_extraction" \in DOMAIN instances
    /\ instances["reasoning_extraction"] # trace[Len(trace)].flow

\* ------------------------------------------------------------------- C28
\* The strategy an agentic run works under is the performance strategy, made
\* from the base score.
PerformancePlanned ==
    /\ call.plan.analysis.complexity_score = 30
    /\ call.plan.analysis.recommended_strategy = "performance"
    /\ call.plan.strategy.strategy = "performance"
    /\ call.plan.strategy.pipeline_config = optimize_pipeline("performance")

\* C28: in an agentic run the strategy is fixed from the initial context
\* before any step executes and is not revised: the plan and the configs of
\* the steps do not change while the loop runs, whatever the steps return,
\* and a run whose initial context has no question key scores the base
\* complexity and works under the performance strategy to its end, also
\* when a step has put a question into the context.
C28_StrategyFixedAtStart ==
    /\ [][pc = "running" => (call' = call /\ flow_configs' = flow_configs)]_vars
    /\ []((pc \in {"running", "done"} /\ call.agentic
           /\ "question" \notin DOMAIN StartContext) =>
            /\ PerformancePlanned
            /\ pc = "running" => flow_configs = optimize_pipeline("performance")
            /\ pc = "done" =>
                  /\ result.metadata["agent_analysis"].complexity_score = 30
                  /\ result.metadata["strategy_used"].value.strategy = "performance"
                  /\ \A i \in 1 .. Len(trace) :
                        (trace[i].flow # NoFlow
                         /\ trace[i].name \in DOMAIN optimize_pipeline("performance"))
                        => trace[i].flow.config
                               = optimize_pipeline("performance")[trace[i].name])

\* An agentic run started without question has returned after its first step
\* put a complex question into the context and its second step ran under the
\* performance config.
C28_Witness ==
    /\ pc = "done"
    /\ call.agentic
    /\ "question" \notin DOMAIN StartContext
    /\ Len(trace) = 2
    /\ StepSucceeded(trace[1])
    /\ "question" \in DOMAIN trace[1].out.data
    /\ trace[1].out.data["question"] = "qComplex"
    /\ trace[2].name = "reasoning_extraction"
    /\ trace[2].flow # NoFlow
    /\ trace[2].flow.config = "depth=basic,search_timeout=5"
    /\ PerformancePlanned

\* ------------------------------------------------------------------- C29
\* C29: after any sequence of registrations, creates and pipeline runs, every
\* name with a cached default instance is a registered name, the cache holds
\* one instance per name, made for that name and shared with no other name,
\* and every cached instance was constructed without config (its config is
\* empty).
C29_RegistryInvariant ==
    \A n \in DOMAIN instances :
        /\ n \in DOMAIN flows
        /\ instances[n] # NoFlow
        /\ instances[n].name = n
        /\ instances[n].config = "{}"
        /\ instances[n].id \in 1 .. nextId
        /\ \A m \in DOMAIN instances : instances[m].id = instances[n].id => m = n

\* Both names have a cached instance after a pipeline run, one of them of a
\* class registered before the one registered now.
C29_Witness ==
    /\ DOMAIN instances = Names
    /\ pc = "done"
    /\ \E n \in Names : instances[n].cls # flows[n]

\* ------------------------------------------------- the command line's flows
\* src/flows/__init__.py imports the four flow modules in this order.
FlowModuleOrder == <<"question_flow", "reasoning_flow", "llm_flow", "video_flow">>

\* What each flow module does when imported: its @register_flow(name) on its
\* class, and the module its register_flow was imported from.
\* unified_flow_engine.register_flow registers in unified_engine,
\* flow_engine.register_flow in flow_registry.
FlowModuleDecorator(m) ==
    CASE m = "question_flow" ->
            [name |-> "question_selection", flow_class |-> "QuestionSelectionFlow",
             from |-> "unified_flow_engine"]
      [] m = "reasoning_flow" ->
            [name |-> "reasoning_extraction", flow_class |-> "ReasoningExtractionFlow",
             from |-> "flow_engine"]
      [] m = "llm_flow" ->
            [name |-> "llm_processing", flow_class |-> "LLMProcessingFlow",
             from |-> "flow_engine"]
      [] OTHER ->
            [name |-> "video_generation", flow_class |-> "VideoGenerationFlow",
             from |-> "flow_engine"]

\* main.py generate: the pipeline's step names.
MainPipeline ==
    <<"question_selection", "reasoning_extraction", "llm_processing",
      "video_generation">>

\* main.py generate: the choices of --subject; input_data is {} or
\* {"subject": subject}.
MainSubjects == {"Quant", "Verbal", "Logic", "DI"}
MainInputs == {EmptyDict} \cup {D1("subject", s) : s \in MainSubjects}

\* The import of the next flow module: its decorator runs once and stores the
\* class in the registry of the module register_flow came from.
ImportFlowModule ==
    /\ pc = "idle"
    /\ Len(imported) < Len(FlowModuleOrder)
    /\ LET m == FlowModuleOrder[Len(imported) + 1]
           d == FlowModuleDecorator(m)
       IN /\ imported' = Append(imported, m)
          /\ IF d.from = "unified_flow_engine"
             THEN /\ flows' = register_flow(flows, d.name, d.flow_class)
                  /\ UNCHANGED flow_registry
             ELSE /\ flow_registry' = register_flow(flow_registry, d.name, d.flow_class)
                  /\ UNCHANGED flows
    /\ UNCHANGED <<instances, nextId, last_create, runVars, threads, probe>>

\* main.py generate, after `from src.flows import *`:
\* unified_engine.execute_pipeline(pipeline, input_data, agentic=agentic).
Generate(input_data, agentic) ==
    /\ Len(imported) = Len(FlowModuleOrder)
    /\ ExecutePipeline(MainPipeline, input_data, NoneData, agentic)

NextImports ==
    \/ ImportFlowModule
    \/ \E input_data \in MainInputs, agentic \in BOOLEAN :
          Generate(input_data, agentic)
    \/ RunFlow
    \/ ReturnResult

SpecImports == Init /\ [][NextImports]_vars

\* The pipeline run stopped because create_flow gave no flow for a step.
FailedToCreate ==
    /\ pc = "done"
    /\ result.success = FALSE
    /\ Len(result.error) = 2
    /\ result.error[1] = "Failed to create flow: "

\* ------------------------------------------------------------------- C30
\* C30: once all flow modules are imported, every step name of the command
\* line's pipeline is registered in unified_engine, the engine the command
\* line runs the pipeline on, and no run of that pipeline ends with the
\* error "Failed to create flow: <name>".
C30_PipelineStepsRegistered ==
    /\ Len(imported) = Len(FlowModuleOrder) =>
          \A i \in 1 .. Len(MainPipeline) : MainPipeline[i] \in DOMAIN flows
    /\ call.flow_names = MainPipeline => ~FailedToCreate

====
